---- MODULE Spec2Model ----
(***************************************************************************)
(* Model of SessionRedisService (the in-memory mock of the session store)  *)
(* of better-stack-test: the entry map (addEntry, getAllEntries, getEntry, *)
(* deleteEntry) and the member map (trackMember, getOnlineMemberCount).    *)
(*                                                                         *)
(* Time is Date.now() in milliseconds.  Strings that are concatenated into *)
(* storage keys are sequences of tokens ("session", ":", "entry", ...), so *)
(* that the template strings and startsWith are computed, not assumed.     *)
(* Every handler does all of its reads and writes before its first await   *)
(* (the awaits are bare timers), so one action is the whole handler and    *)
(* the value it returns is fixed at the time of the call.                  *)
(*                                                                         *)
(* Next to it: the query useHealthCheck hands to useQuery (retry and       *)
(* refetch options) and the /ws route of server.ts (messages, wsClients).  *)
(***************************************************************************)
EXTENDS Integers, Sequences, FiniteSets, TLC

VARIABLES
    now,                \* Date.now(), ms
    mockEntries,        \* Map<string, RedisEntry>, in insertion order
    mockMembers,        \* Map<string, {sessionId, memberId, lastSeen}>
    uuidCount,          \* number of ids uuidv4() has handed out
    refetchIntervalMs,  \* ENTRIES_REFETCH_INTERVAL_MS of "@/lib/constants"
    last,               \* the last call: operation, arguments, returned value
    added,              \* history: the arguments and id of every addEntry
    deleted,            \* history: <<sessionId, id>> deleted while live
    tracked,            \* history: the latest trackMember of every pair
    self,               \* the SessionRedisService instance calls go through
    calls,              \* per caller: the call that is awaiting its timer
    query,              \* the ["health"] query useHealthCheck hands to useQuery
    delayCall,          \* the last call of the retryDelay option
    messages,           \* server.ts: const messages, the chat messages
    wsClients,          \* server.ts: const wsClients, the Set of sockets
    inbox,              \* per connection: what was sent to it, in order
    wsLast              \* the last WebSocket event and what it found

serviceVars == <<now, mockEntries, mockMembers, uuidCount, refetchIntervalMs,
                 last, added, deleted, tracked, self, calls>>

healthVars == <<query, delayCall>>

wsVars == <<messages, wsClients, inbox, wsLast>>

vars == <<serviceVars, healthVars, wsVars>>

----------------------------------------------------------------------------
(* Bounds of the model *)

StartTime == 20000       \* Date.now() when the module is loaded
MaxEntries == 2          \* addEntry calls in one behaviour
TickMs == 1000           \* one step of the clock of the entry specification
MaxElapsed == 2000       \* ms of time the entry specification lets pass
MaxElapsedPresence == 12000  \* ms the member specification lets pass

SessionIds == {<<"s1">>, <<"s2">>}

\* the (memberId, text, ttl, imageUrl) addEntry is called with
AddArgs ==
    { <<<<"m1">>, "hello", 1, "">>,
      <<<<"m2">>, "world", 2, "img">>,
      <<<<"m1">>, "", 1, "">>,
      <<<<"m2">>, "hello", 0, "">> }

\* the (sessionId, memberId) trackMember is called with
TrackArgs ==
    { <<<<"s1">>, <<"m1">>>>, <<<<"s1">>, <<"m2">>>>, <<<<"s1">>, <<"m3">>>>,
      <<<<"s1">>, <<"m4">>>>, <<<<"s2">>, <<"m1">>>> }

\* configured values of ENTRIES_REFETCH_INTERVAL_MS
RefetchIntervals == {500, 1500}

\* steps of the clock of the member specification
PresenceTicks == {5000, 6000}

NumCallers == 2          \* request handlers that run concurrently
Callers == 1..NumCallers

NumInstances == 2        \* SessionRedisService objects constructed
Instances == 1..NumInstances

MaxFetches == 2          \* fetches of the health query in one behaviour
MaxAttemptIndex == 6     \* largest attemptIndex retryDelay is called with

\* the refetchInterval a component passes to useHealthCheck: the key left
\* out, undefined, false, or a number of ms
RefetchOptions ==
    { [kind |-> "absent", ms |-> 0], [kind |-> "undefined", ms |-> 0],
      [kind |-> "false", ms |-> 0],
      [kind |-> "number", ms |-> 5000], [kind |-> "number", ms |-> 10000] }

NumConns == 3            \* WebSocket connections made to /ws
Conns == 1..NumConns
MaxWsEvents == 6         \* WebSocket events in one behaviour

\* what a client sends over its socket: text that JSON.parse accepts (json)
\* with the type, userId and content it carries, or text it rejects
WsPayloads ==
    { [json |-> TRUE, type |-> "chat_message", userId |-> "1", content |-> "hi"],
      [json |-> TRUE, type |-> "typing", userId |-> "2", content |-> ""],
      [json |-> TRUE, type |-> "ping", userId |-> "", content |-> ""],
      [json |-> FALSE, type |-> "", userId |-> "", content |-> ""] }

\* caller-supplied ids that hold ':' and the words of the key templates
OpaqueSessionIds ==
    { <<"a">>, <<"a", ":", "entry">>, <<"a", ":", "member", ":", "b">> }
OpaqueEntryIds == { <<"u1">>, <<"entry", ":", "u1">> }
OpaqueMemberIds == { <<"c">>, <<"b", ":", "member", ":", "c">> }

\* the enabled option: the key left out, true or false
EnabledOptions == {"absent", "true", "false"}

----------------------------------------------------------------------------
(* Strings, dates *)

\* an id generator that hands out the same id again
uuidv4_Same(n) == <<"u1">>

\* uuidv4(): the n-th id handed out; ids are fresh and contain no ':'
uuidv4(n) == <<"u" \o ToString(n)>>

EntryIds == {uuidv4(n) : n \in 1..(MaxEntries + 1)}

\* Date.prototype.toISOString: "....ss.mmmZ", seconds and milliseconds
toISOString(t) == <<t \div 1000, t % 1000>>

\* new Date(isoString).getTime()
parseDate(iso) == iso[1] * 1000 + iso[2]

\* String.prototype.startsWith
startsWith(str, prefix) ==
    /\ Len(str) >= Len(prefix)
    /\ SubSeq(str, 1, Len(prefix)) = prefix

getEntryKey(sessionId, entryId) ==
    <<"session", ":">> \o sessionId \o <<":", "entry", ":">> \o entryId

\* a member key that leaves the member out
getMemberKey_NoMember(sessionId, memberId) ==
    <<"session", ":">> \o sessionId \o <<":", "member", ":">>

getMemberKey(sessionId, memberId) ==
    <<"session", ":">> \o sessionId \o <<":", "member", ":">> \o memberId

\* the template string getAllEntries scans for
entryKeyPrefix(sessionId) ==
    <<"session", ":">> \o sessionId \o <<":", "entry", ":">>

----------------------------------------------------------------------------
(* Map<string, V> kept in insertion order as a sequence of [key, val] *)

MapHas(m, k) == \E i \in 1..Len(m) : m[i].key = k

MapIndex(m, k) == CHOOSE i \in 1..Len(m) : m[i].key = k

MapGet(m, k) == m[MapIndex(m, k)].val

\* Map.prototype.set: an existing key keeps its place
MapSet(m, k, v) ==
    IF MapHas(m, k)
    THEN [m EXCEPT ![MapIndex(m, k)] = [key |-> k, val |-> v]]
    ELSE Append(m, [key |-> k, val |-> v])

\* a delete that cuts the map off at the key (splice without a count)
MapDelete_Tail(m, k) ==
    IF MapHas(m, k) THEN SubSeq(m, 1, MapIndex(m, k) - 1) ELSE m

\* Map.prototype.delete
MapDelete(m, k) ==
    IF MapHas(m, k)
    THEN SubSeq(m, 1, MapIndex(m, k) - 1) \o SubSeq(m, MapIndex(m, k) + 1, Len(m))
    ELSE m

----------------------------------------------------------------------------
(* Sample data *)

\* the module-level array, built once when the module is loaded
SampleEntriesAt(t) ==
    << [id |-> <<"entry-1">>, text |-> "sample 1",
        createdAt |-> toISOString(t - 5000),
        expiresAt |-> toISOString(t + 3600000),
        ttl |-> 3600, imageUrl |-> "picsum/1", memberId |-> <<"member-1">>],
       [id |-> <<"entry-2">>, text |-> "sample 2",
        createdAt |-> toISOString(t - 10000),
        expiresAt |-> toISOString(t + 7200000),
        ttl |-> 7200, memberId |-> <<"member-2">>],
       [id |-> <<"entry-3">>, text |-> "sample 3",
        createdAt |-> toISOString(t - 15000),
        expiresAt |-> toISOString(t + 1800000),
        ttl |-> 1800, imageUrl |-> "picsum/2", memberId |-> <<"member-1">>] >>

sampleEntries == SampleEntriesAt(StartTime)

----------------------------------------------------------------------------
(* Array.prototype.sort with the comparator of getAllEntries: stable,       *)
(* b.createdAt - a.createdAt, newest first                                  *)

compareCreated(a, b) == parseDate(b.createdAt) - parseDate(a.createdAt)

\* an insertion that puts an element in front of its equals
RECURSIVE InsertSorted_Unstable(_, _)
InsertSorted_Unstable(sorted, e) ==
    IF sorted = <<>> THEN <<e>>
    ELSE IF compareCreated(sorted[Len(sorted)], e) < 0
         THEN Append(sorted, e)
         ELSE Append(InsertSorted_Unstable(SubSeq(sorted, 1, Len(sorted) - 1),
                                           e),
                     sorted[Len(sorted)])

RECURSIVE InsertSorted(_, _)
InsertSorted(sorted, e) ==
    IF sorted = <<>> THEN <<e>>
    ELSE IF compareCreated(sorted[Len(sorted)], e) <= 0
         THEN Append(sorted, e)
         ELSE Append(InsertSorted(SubSeq(sorted, 1, Len(sorted) - 1), e),
                     sorted[Len(sorted)])

RECURSIVE SortNewestFirst(_)
SortNewestFirst(s) ==
    IF s = <<>> THEN <<>>
    ELSE InsertSorted(SortNewestFirst(SubSeq(s, 1, Len(s) - 1)), s[Len(s)])

----------------------------------------------------------------------------
(* The entry operations *)

\* addEntry with the ttl added to the clock as milliseconds, not seconds
NewEntry_TtlAsMs(entryId, t, text, ttl, imageUrl, memberId) ==
    LET base == [id |-> entryId, text |-> text,
                 createdAt |-> toISOString(t),
                 expiresAt |-> toISOString(t + ttl),
                 ttl |-> ttl, memberId |-> memberId]
    IN IF imageUrl = "" THEN base
       ELSE [f \in DOMAIN base \cup {"imageUrl"} |->
                IF f = "imageUrl" THEN imageUrl ELSE base[f]]

\* the entry object addEntry builds; a falsy imageUrl leaves the field out
NewEntry(entryId, t, text, ttl, imageUrl, memberId) ==
    LET base == [id |-> entryId, text |-> text,
                 createdAt |-> toISOString(t),
                 expiresAt |-> toISOString(t + ttl * 1000),
                 ttl |-> ttl, memberId |-> memberId]
    IN IF imageUrl = "" THEN base
       ELSE [f \in DOMAIN base \cup {"imageUrl"} |->
                IF f = "imageUrl" THEN imageUrl ELSE base[f]]

\* getAllEntries: the test that keeps an entry of the scan
scanKeeps(key, entry, sessionId, t) ==
    /\ startsWith(key, entryKeyPrefix(sessionId))
    /\ parseDate(entry.expiresAt) > t

RECURSIVE scanEntries(_, _, _)
scanEntries(m, sessionId, t) ==
    IF m = <<>> THEN <<>>
    ELSE LET rest == scanEntries(SubSeq(m, 1, Len(m) - 1), sessionId, t)
             e == m[Len(m)]
         IN IF scanKeeps(e.key, e.val, sessionId, t)
            THEN Append(rest, e.val) ELSE rest

\* getAllEntries: the returned array
getAllEntriesRet(m, sessionId, t) ==
    LET sessionEntries == scanEntries(m, sessionId, t)
    IN IF Len(sessionEntries) = 0
       THEN SortNewestFirst(sampleEntries)
       ELSE SortNewestFirst(sessionEntries)

\* the expiry test with the boundary left out
getExpired_Strict(entry, t) == parseDate(entry.expiresAt) < t

\* getEntry: the expiry test
getExpired(entry, t) == parseDate(entry.expiresAt) <= t

\* getEntry: the returned value, <<>> for null and <<e>> for an entry
getEntryRet(m, sessionId, entryId, t) ==
    LET entryKey == getEntryKey(sessionId, entryId)
    IN IF ~MapHas(m, entryKey) THEN <<sampleEntries[1]>>
       ELSE IF getExpired(MapGet(m, entryKey), t) THEN <<>>
       ELSE <<MapGet(m, entryKey)>>

\* a getEntry that drops every expired entry it finds, not just its own
getEntryStore_Sweep(m, sessionId, entryId, t) ==
    LET entryKey == getEntryKey(sessionId, entryId)
    IN IF MapHas(m, entryKey) /\ getExpired(MapGet(m, entryKey), t)
       THEN SelectSeq(m, LAMBDA e : ~getExpired(e.val, t)) ELSE m

\* getEntry: the map it leaves
getEntryStore(m, sessionId, entryId, t) ==
    LET entryKey == getEntryKey(sessionId, entryId)
    IN IF MapHas(m, entryKey) /\ getExpired(MapGet(m, entryKey), t)
       THEN MapDelete(m, entryKey) ELSE m

\* deleteEntry: the returned flag
deleteEntryRet(m, sessionId, entryId) ==
    MapHas(m, getEntryKey(sessionId, entryId))

\* deleteEntry: the map it leaves
deleteEntryStore(m, sessionId, entryId) ==
    MapDelete(m, getEntryKey(sessionId, entryId))

----------------------------------------------------------------------------
(* The member operations *)

\* the seconds getMemberTTL adds to the refetch interval
GraceSeconds == 10

\* the member TTL with the interval rounded to the nearest second
getMemberTTL_Round(intervalMs) == ((intervalMs + 500) \div 1000) + GraceSeconds

\* seconds a member stays online after a heartbeat
getMemberTTL(intervalMs) == (intervalMs \div 1000) + GraceSeconds

\* a trackMember that inserts a new record and leaves an existing one alone
trackMemberStore_InsertOnly(m, sessionId, memberId, t) ==
    LET memberKey == getMemberKey(sessionId, memberId)
        rec == [sessionId |-> sessionId, memberId |-> memberId, lastSeen |-> t]
    IN IF memberKey \in DOMAIN m THEN m
       ELSE [k \in DOMAIN m \cup {memberKey} |->
                IF k = memberKey THEN rec ELSE m[k]]

\* trackMember: the map it leaves (Map.set: insert or overwrite)
trackMemberStore(m, sessionId, memberId, t) ==
    LET memberKey == getMemberKey(sessionId, memberId)
        rec == [sessionId |-> sessionId, memberId |-> memberId, lastSeen |-> t]
    IN [k \in DOMAIN m \cup {memberKey} |->
           IF k = memberKey THEN rec ELSE m[k]]

\* the test of the counting loop with the boundary let in
countsOnline_Inclusive(member, sessionId, t, memberTTL) ==
    /\ member.sessionId = sessionId
    /\ t - member.lastSeen <= memberTTL

\* getOnlineMemberCount: the test of the counting loop
countsOnline(member, sessionId, t, memberTTL) ==
    /\ member.sessionId = sessionId
    /\ t - member.lastSeen < memberTTL

\* the sample value getOnlineMemberCount never goes below
SampleOnlineCount == 3

Max(a, b) == IF a >= b THEN a ELSE b

\* getOnlineMemberCount: the returned number
getOnlineMemberCount(m, sessionId, t, intervalMs) ==
    LET memberTTL == getMemberTTL(intervalMs) * 1000
        onlineCount ==
            Cardinality({k \in DOMAIN m :
                            countsOnline(m[k], sessionId, t, memberTTL)})
    IN Max(SampleOnlineCount, onlineCount)

----------------------------------------------------------------------------
(* useHealthCheck: the options handed to useQuery *)

DefaultRefetchInterval == 5000   \* refetchInterval = 5000
Retry == 3                       \* retry: 3
RetryBaseMs == 1000              \* 1000 * 2 ** attemptIndex
RetryCapMs == 30000              \* Math.min(..., 30000)

Min(a, b) == IF a <= b THEN a ELSE b

\* the backoff without its cap
retryDelay_Uncapped(attemptIndex) == RetryBaseMs * 2^attemptIndex

\* retryDelay: (attemptIndex) => Math.min(1000 * 2 ** attemptIndex, 30000)
retryDelay(attemptIndex) == Min(RetryBaseMs * 2^attemptIndex, RetryCapMs)

\* const { refetchInterval = 5000 } = options: a destructuring default
\* applies when the key is absent and when its value is undefined
refetchIntervalOf(opt) ==
    IF opt.kind \in {"absent", "undefined"}
    THEN [kind |-> "number", ms |-> DefaultRefetchInterval]
    ELSE opt

\* const { enabled = true } = options
enabledOf(opt) == opt # "false"

\* the interval timer of the query runs
autoRefetches(q) ==
    /\ q.enabled
    /\ q.refetchInterval.kind = "number"
    /\ q.refetchInterval.ms > 0

\* the query before a component has called the hook
Unmounted ==
    [state |-> "unmounted", option |-> [kind |-> "absent", ms |-> 0],
     refetchInterval |-> [kind |-> "absent", ms |-> 0], enabled |-> FALSE,
     failureCount |-> 0, delays |-> <<>>, fetches |-> 0, auto |-> 0]

NoDelayCall == [attemptIndex |-> -1, delay |-> 0]

----------------------------------------------------------------------------
(* server.ts: the /ws route *)

\* what ws.send is given, before JSON.stringify: the type and, by type, a
\* text, a userId or a message (<<>> where the frame has none)
Frame(type, text, userId, message) ==
    [type |-> type, text |-> text, userId |-> userId, message |-> message]

WelcomeFrame == Frame("connected", "Welcome to the chat!", "", <<>>)
UnknownTypeFrame == Frame("error", "Unknown message type", "", <<>>)
InvalidFormatFrame == Frame("error", "Invalid message format", "", <<>>)

\* crypto.randomUUID(): the n-th id of the process
randomUUID(n) == "msg-" \o ToString(n)

\* the message object of a chat_message
NewMessage(data, n, t) ==
    [id |-> randomUUID(n), userId |-> data.userId, content |-> data.content,
     timestamp |-> toISOString(t)]

\* a typing broadcast that does not leave the sender out
typingReceivers_All(clients, ws) == clients

\* case "typing": the clients of the forEach with client !== ws
typingReceivers(clients, ws) == clients \ {ws}

\* the sockets of the framework: not yet connected, open, or closed
\* (a connection is made once; a client that comes back is a new socket)
InitWs ==
    /\ messages = <<>>
    /\ wsClients = {}
    /\ inbox = [c \in Conns |->
                   [state |-> "new", got |-> <<>>]]
    /\ wsLast = [event |-> "none", ws |-> 0, type |-> "", n |-> 0,
                  open |-> {}]

\* the sockets that are open
OpenConns == {c \in Conns : inbox[c].state = "open"}

\* client.send(frame) for every client of the set
SendTo(box, clients, frame) ==
    [c \in Conns |->
        IF c \in clients
        THEN [box[c] EXCEPT !.got = Append(@, frame)]
        ELSE box[c]]

\* the record of a WebSocket event: open is the set of sockets that were
\* open when the handler ran
WsEvent(event, ws, type, open) ==
    [event |-> event, ws |-> ws, type |-> type, n |-> wsLast.n + 1,
     open |-> open]

----------------------------------------------------------------------------
(* State machine *)

NoId == <<>>

\* a caller with no call in flight
Idle == [pc |-> "idle"]

\* the record of a call: ret is the returned entry or array (<<>> for
\* null), ok the returned flag, count the returned number; pre says what
\* the addressed key held when the call was made (an entry: missing, live
\* or expired; a member record: missing, present inside the presence
\* window, or stale)
Call(op, sessionId, id, pre, ret, ok, count) ==
    [op |-> op, sessionId |-> sessionId, id |-> id, at |-> now,
     pre |-> pre, ret |-> ret, ok |-> ok, count |-> count, inst |-> self]

\* what the entry map holds under (sessionId, entryId) at time t
KeyState(m, sessionId, entryId, t) ==
    LET k == getEntryKey(sessionId, entryId)
    IN IF ~MapHas(m, k) THEN "missing"
       ELSE IF t < parseDate(MapGet(m, k).expiresAt) THEN "live"
       ELSE "expired"

Init ==
    /\ now = StartTime
    /\ mockEntries = <<>>
    /\ mockMembers = <<>>
    /\ uuidCount = 0
    /\ refetchIntervalMs \in RefetchIntervals
    /\ self = 1
    /\ last = Call("init", NoId, NoId, "none", <<>>, FALSE, 0)
    /\ added = {}
    /\ deleted = {}
    /\ tracked = {}
    /\ calls = [c \in Callers |-> Idle]
    /\ query = Unmounted
    /\ delayCall = NoDelayCall
    /\ InitWs

addEntry(sessionId, memberId, text, ttl, imageUrl) ==
    /\ uuidCount < MaxEntries
    /\ LET entryId == uuidv4(uuidCount + 1)
           entry == NewEntry(entryId, now, text, ttl, imageUrl, memberId)
       IN /\ mockEntries' = MapSet(mockEntries,
                                    getEntryKey(sessionId, entryId), entry)
          /\ uuidCount' = uuidCount + 1
          /\ last' = Call("add", sessionId, entryId, "missing",
                          <<entry>>, FALSE, 0)
          /\ added' = added \cup
                 {[sessionId |-> sessionId, memberId |-> memberId,
                   text |-> text, ttl |-> ttl, imageUrl |-> imageUrl,
                   id |-> entryId, at |-> now, ret |-> entry,
                   inst |-> self]}
    /\ UNCHANGED <<now, mockMembers, refetchIntervalMs, deleted,
                   tracked, self, calls,
                   healthVars, wsVars>>

getAllEntries(sessionId) ==
    /\ last' = Call("getAll", sessionId, NoId, "none",
                    getAllEntriesRet(mockEntries, sessionId, now), FALSE, 0)
    /\ UNCHANGED <<now, mockEntries, mockMembers, uuidCount,
                   refetchIntervalMs, added, deleted, tracked, self, calls,
                   healthVars, wsVars>>

getEntry(sessionId, entryId) ==
    /\ mockEntries' = getEntryStore(mockEntries, sessionId, entryId, now)
    /\ last' = Call("get", sessionId, entryId,
                    KeyState(mockEntries, sessionId, entryId, now),
                    getEntryRet(mockEntries, sessionId, entryId, now),
                    FALSE, 0)
    /\ UNCHANGED <<now, mockMembers, uuidCount, refetchIntervalMs,
                   added, deleted, tracked, self, calls,
                   healthVars, wsVars>>

\* a deleteEntry that also forgets the members of the session
deleteEntry_Cascade(sessionId, entryId) ==
    LET pre == KeyState(mockEntries, sessionId, entryId, now)
    IN /\ mockEntries' = deleteEntryStore(mockEntries, sessionId, entryId)
       /\ mockMembers' =
             [k \in {j \in DOMAIN mockMembers :
                        mockMembers[j].sessionId # sessionId}
                |-> mockMembers[k]]
       /\ last' = Call("delete", sessionId, entryId, pre, <<>>,
                       deleteEntryRet(mockEntries, sessionId, entryId), 0)
       /\ deleted' = IF pre = "live"
                     THEN deleted \cup {<<sessionId, entryId>>}
                     ELSE deleted
       /\ UNCHANGED <<now, uuidCount, refetchIntervalMs, added,
                      tracked, self, calls, healthVars, wsVars>>

deleteEntry(sessionId, entryId) ==
    LET pre == KeyState(mockEntries, sessionId, entryId, now)
    IN /\ mockEntries' = deleteEntryStore(mockEntries, sessionId, entryId)
       /\ last' = Call("delete", sessionId, entryId, pre, <<>>,
                       deleteEntryRet(mockEntries, sessionId, entryId), 0)
       /\ deleted' = IF pre = "live"
                     THEN deleted \cup {<<sessionId, entryId>>}
                     ELSE deleted
       /\ UNCHANGED <<now, mockMembers, uuidCount, refetchIntervalMs, added,
                      tracked, self, calls,
                   healthVars, wsVars>>

trackMember(sessionId, memberId) ==
    /\ mockMembers' = trackMemberStore(mockMembers, sessionId, memberId, now)
    /\ last' = Call("track", sessionId, memberId,
                    LET k == getMemberKey(sessionId, memberId)
                    IN IF k \notin DOMAIN mockMembers THEN "missing"
                       ELSE IF now - mockMembers[k].lastSeen
                                 < getMemberTTL(refetchIntervalMs) * 1000
                            THEN "present"
                            ELSE "stale",
                    <<>>, FALSE, 0)
    /\ tracked' =
          {t \in tracked : ~(t.sessionId = sessionId /\ t.memberId = memberId)}
          \cup {[sessionId |-> sessionId, memberId |-> memberId, at |-> now]}
    /\ UNCHANGED <<now, mockEntries, uuidCount, refetchIntervalMs,
                   added, deleted, self, calls,
                   healthVars, wsVars>>

\* a count that also drops the records it finds outside the window
onlineCount_Sweep(sessionId) ==
    /\ last' = Call("count", sessionId, NoId, "none", <<>>, FALSE,
                    getOnlineMemberCount(mockMembers, sessionId, now,
                                         refetchIntervalMs))
    /\ mockMembers' =
          [k \in {j \in DOMAIN mockMembers :
                     countsOnline(mockMembers[j], mockMembers[j].sessionId,
                                  now, getMemberTTL(refetchIntervalMs) * 1000)}
             |-> mockMembers[k]]
    /\ UNCHANGED <<now, mockEntries, uuidCount,
                   refetchIntervalMs, added, deleted, tracked, self, calls,
                   healthVars, wsVars>>

onlineCount(sessionId) ==
    /\ last' = Call("count", sessionId, NoId, "none", <<>>, FALSE,
                    getOnlineMemberCount(mockMembers, sessionId, now,
                                         refetchIntervalMs))
    /\ UNCHANGED <<now, mockEntries, mockMembers, uuidCount,
                   refetchIntervalMs, added, deleted, tracked, self, calls,
                   healthVars, wsVars>>

----------------------------------------------------------------------------
(* The handlers as the event loop runs them: the part of an async method   *)
(* up to its first await runs without interruption and does every read and *)
(* write; the method then waits for its timer and returns the value it     *)
(* already holds.  Several callers have calls in flight at once.           *)

AddDelayMs == 10         \* setTimeout of addEntry
GetDelayMs == 5          \* setTimeout of getEntry
DeleteDelayMs == 5       \* setTimeout of deleteEntry

\* a call of caller c that has run up to its await (or, with due = now and
\* no timer, up to a return that comes before the await)
Pending(op, sessionId, id, pre, ret, ok, delay) ==
    [pc |-> IF delay = 0 THEN "done" ELSE "await",
     op |-> op, sessionId |-> sessionId, id |-> id, at |-> now,
     due |-> now + delay, doneAt |-> now,
     pre |-> pre, ret |-> ret, ok |-> ok]

addEntryStart(c, sessionId, memberId, text, ttl, imageUrl) ==
    /\ calls[c].pc # "await"
    /\ uuidCount < MaxEntries
    /\ LET entryId == uuidv4(uuidCount + 1)
           entry == NewEntry(entryId, now, text, ttl, imageUrl, memberId)
       IN /\ mockEntries' = MapSet(mockEntries,
                                    getEntryKey(sessionId, entryId), entry)
          /\ uuidCount' = uuidCount + 1
          /\ calls' = [calls EXCEPT ![c] =
                 Pending("add", sessionId, entryId, "missing", <<entry>>,
                         FALSE, AddDelayMs)]
          /\ added' = added \cup
                 {[sessionId |-> sessionId, memberId |-> memberId,
                   text |-> text, ttl |-> ttl, imageUrl |-> imageUrl,
                   id |-> entryId, at |-> now, ret |-> entry,
                   inst |-> self]}
    /\ UNCHANGED <<now, mockMembers, refetchIntervalMs, last, deleted,
                   tracked, self,
                   healthVars, wsVars>>

\* getEntry returns before its await when the key is missing or expired
getEntryStart(c, sessionId, entryId) ==
    LET pre == KeyState(mockEntries, sessionId, entryId, now)
    IN /\ calls[c].pc # "await"
       /\ mockEntries' = getEntryStore(mockEntries, sessionId, entryId, now)
       /\ calls' = [calls EXCEPT ![c] =
              Pending("get", sessionId, entryId, pre,
                      getEntryRet(mockEntries, sessionId, entryId, now),
                      FALSE, IF pre = "live" THEN GetDelayMs ELSE 0)]
       /\ UNCHANGED <<now, mockMembers, uuidCount, refetchIntervalMs, last,
                      added, deleted, tracked, self,
                   healthVars, wsVars>>

deleteEntryStart(c, sessionId, entryId) ==
    LET pre == KeyState(mockEntries, sessionId, entryId, now)
    IN /\ calls[c].pc # "await"
       /\ mockEntries' = deleteEntryStore(mockEntries, sessionId, entryId)
       /\ calls' = [calls EXCEPT ![c] =
              Pending("delete", sessionId, entryId, pre, <<>>,
                      deleteEntryRet(mockEntries, sessionId, entryId),
                      DeleteDelayMs)]
       /\ deleted' = IF pre = "live"
                     THEN deleted \cup {<<sessionId, entryId>>}
                     ELSE deleted
       /\ UNCHANGED <<now, mockMembers, uuidCount, refetchIntervalMs, last,
                      added, tracked, self,
                   healthVars, wsVars>>

\* the timer of caller c has fired: its method returns
Return(c) ==
    /\ calls[c].pc = "await"
    /\ now >= calls[c].due
    /\ calls' = [calls EXCEPT ![c].pc = "done", ![c].doneAt = now]
    /\ UNCHANGED <<now, mockEntries, mockMembers, uuidCount,
                   refetchIntervalMs, last, added, deleted, tracked, self,
                   healthVars, wsVars>>

\* new SessionRedisService(): the class has no fields and no constructor,
\* the maps are module-level; the caller goes on with instance i
newService(i) ==
    /\ i # self
    /\ self' = i
    /\ UNCHANGED <<now, mockEntries, mockMembers, uuidCount,
                   refetchIntervalMs, last, added, deleted, tracked, calls,
                   healthVars, wsVars>>

----------------------------------------------------------------------------
(* The health query: useQuery runs queryFn, retries a throwing queryFn      *)
(* `retry` times, waiting retryDelay(failureCount) before each retry, and   *)
(* starts a new fetch every refetchInterval ms                              *)

\* a component calls useHealthCheck(options)
useHealthCheck(refetchOpt, enabledOpt) ==
    /\ query.state = "unmounted"
    /\ query' = [state |-> IF enabledOf(enabledOpt) THEN "fetching" ELSE "idle",
                 option |-> refetchOpt,
                 refetchInterval |-> refetchIntervalOf(refetchOpt),
                 enabled |-> enabledOf(enabledOpt),
                 failureCount |-> 0, delays |-> <<>>,
                 fetches |-> IF enabledOf(enabledOpt) THEN 1 ELSE 0,
                 auto |-> 0]
    /\ UNCHANGED <<serviceVars, delayCall, wsVars>>

\* queryFn throws (api.health.get() gave an error or no data)
queryFnThrows ==
    /\ query.state = "fetching"
    /\ IF query.failureCount < Retry
       THEN query' = [query EXCEPT
                        !.state = "retryWait",
                        !.delays = Append(@, retryDelay(query.failureCount)),
                        !.failureCount = @ + 1]
       ELSE query' = [query EXCEPT !.state = "error"]
    /\ UNCHANGED <<serviceVars, delayCall, wsVars>>

\* the retry delay is over: queryFn runs again
retryTimer ==
    /\ query.state = "retryWait"
    /\ query' = [query EXCEPT !.state = "fetching"]
    /\ UNCHANGED <<serviceVars, delayCall, wsVars>>

\* queryFn returns the health data
queryFnReturns ==
    /\ query.state = "fetching"
    /\ query' = [query EXCEPT !.state = "success"]
    /\ UNCHANGED <<serviceVars, delayCall, wsVars>>

\* the refetchInterval timer fires
refetchTimer ==
    /\ query.state \in {"success", "error"}
    /\ autoRefetches(query)
    /\ query.fetches < MaxFetches
    /\ query' = [query EXCEPT !.state = "fetching", !.failureCount = 0,
                              !.delays = <<>>, !.fetches = @ + 1,
                              !.auto = @ + 1]
    /\ UNCHANGED <<serviceVars, delayCall, wsVars>>

\* the component calls refetch() of the returned query
refetch ==
    /\ query.state \in {"idle", "success", "error"}
    /\ query.fetches < MaxFetches
    /\ query' = [query EXCEPT !.state = "fetching", !.failureCount = 0,
                              !.delays = <<>>, !.fetches = @ + 1]
    /\ UNCHANGED <<serviceVars, delayCall, wsVars>>

\* the retryDelay option is called with an attemptIndex
retryDelayCall(attemptIndex) ==
    /\ delayCall' = [attemptIndex |-> attemptIndex,
                     delay |-> retryDelay(attemptIndex)]
    /\ UNCHANGED <<serviceVars, query, wsVars>>

----------------------------------------------------------------------------
(* The handlers of the /ws route *)

\* open(ws): a client has connected
wsOpen(ws) ==
    /\ wsLast.n < MaxWsEvents
    /\ inbox[ws].state = "new"
    /\ wsClients' = wsClients \cup {ws}
    /\ inbox' = SendTo([inbox EXCEPT ![ws].state = "open"], {ws},
                       WelcomeFrame)
    /\ wsLast' = WsEvent("open", ws, "", OpenConns \cup {ws})
    /\ UNCHANGED <<serviceVars, healthVars, messages>>

\* message(ws, message): an open socket has delivered a text
wsMessage(ws, data) ==
    /\ wsLast.n < MaxWsEvents
    /\ inbox[ws].state = "open"
    /\ wsLast' = WsEvent("message", ws, data.type, OpenConns)
    /\ wsClients' = wsClients
    /\ IF ~data.json
       THEN /\ inbox' = SendTo(inbox, {ws}, InvalidFormatFrame)
            /\ messages' = messages
       ELSE IF data.type = "chat_message"
       THEN LET newMessage == NewMessage(data, Len(messages) + 1, now)
            IN /\ messages' = Append(messages, newMessage)
               /\ inbox' = SendTo(inbox, wsClients,
                                  Frame("new_message", "", "",
                                        <<newMessage>>))
       ELSE IF data.type = "typing"
       THEN /\ inbox' = SendTo(inbox, typingReceivers(wsClients, ws),
                               Frame("user_typing", "", data.userId, <<>>))
            /\ messages' = messages
       ELSE /\ inbox' = SendTo(inbox, {ws}, UnknownTypeFrame)
            /\ messages' = messages
    /\ UNCHANGED <<serviceVars, healthVars>>

\* close(ws): an open socket has closed
wsClose(ws) ==
    /\ wsLast.n < MaxWsEvents
    /\ inbox[ws].state = "open"
    /\ wsClients' = wsClients \ {ws}
    /\ inbox' = [inbox EXCEPT ![ws].state = "closed"]
    /\ wsLast' = WsEvent("close", ws, "", OpenConns \ {ws})
    /\ UNCHANGED <<serviceVars, healthVars, messages>>

\* the clock moves on between calls (Date.now() is taken to be monotonic)
Tick(ms, limit) ==
    /\ now + ms <= StartTime + limit
    /\ now' = now + ms
    /\ UNCHANGED <<mockEntries, mockMembers, uuidCount, refetchIntervalMs,
                   last, added, deleted, tracked, self, calls,
                   healthVars, wsVars>>

----------------------------------------------------------------------------
(* Specifications *)

\* the entry store alone
NextEntry ==
    \/ \E s \in SessionIds, a \in AddArgs :
          addEntry(s, a[1], a[2], a[3], a[4])
    \/ \E s \in SessionIds : getAllEntries(s)
    \/ \E s \in SessionIds, id \in EntryIds : getEntry(s, id)
    \/ \E s \in SessionIds, id \in EntryIds : deleteEntry(s, id)
    \/ Tick(TickMs, MaxElapsed)

\* the entry methods never read the refetch interval: one configuration
InitEntry ==
    /\ Init
    /\ refetchIntervalMs = CHOOSE i \in RefetchIntervals : TRUE

SpecEntry == InitEntry /\ [][NextEntry]_vars

\* the member tracker alone
NextPresence ==
    \/ \E a \in TrackArgs : trackMember(a[1], a[2])
    \/ \E s \in SessionIds : onlineCount(s)
    \/ \E ms \in PresenceTicks : Tick(ms, MaxElapsedPresence)

SpecPresence == Init /\ [][NextPresence]_vars

\* the addEntry arguments of the concurrent callers
ConcAddArgs == {a \in AddArgs : a[2] # "" /\ a[3] > 0}

\* the session and the ids the concurrent callers work on
ConcSessions == {<<"s1">>}
ConcEntryIds == {uuidv4(n) : n \in 1..MaxEntries}

\* the entry store with calls of several callers in flight
NextConc ==
    \/ \E c \in Callers, s \in ConcSessions, a \in ConcAddArgs :
          addEntryStart(c, s, a[1], a[2], a[3], a[4])
    \/ \E c \in Callers, s \in ConcSessions, id \in ConcEntryIds :
          getEntryStart(c, s, id)
    \/ \E c \in Callers, s \in ConcSessions, id \in ConcEntryIds :
          deleteEntryStart(c, s, id)
    \/ \E c \in Callers : Return(c)
    \/ \E s \in ConcSessions : getAllEntries(s)
    \/ Tick(TickMs, MaxElapsed)

SpecConc == InitEntry /\ [][NextConc]_vars

\* the trackMember and getOnlineMemberCount calls made next to entry calls
BothTrackArgs == {<<<<"s1">>, <<"m1">>>>}
BothCountSessions == {<<"s1">>}

\* the entry store with member calls in between
NextBoth ==
    \/ \E s \in SessionIds, a \in ConcAddArgs :
          addEntry(s, a[1], a[2], a[3], a[4])
    \/ \E s \in SessionIds : getAllEntries(s)
    \/ \E s \in SessionIds, id \in EntryIds : getEntry(s, id)
    \/ \E s \in SessionIds, id \in EntryIds : deleteEntry(s, id)
    \/ \E a \in BothTrackArgs : trackMember(a[1], a[2])
    \/ \E s \in BothCountSessions : onlineCount(s)
    \/ Tick(TickMs, MaxElapsed)

SpecBoth == InitEntry /\ [][NextBoth]_vars

\* the trackMember calls made next to addEntry while members go stale
CountTrackArgs ==
    { <<<<"s1">>, <<"m1">>>>, <<<<"s1">>, <<"m2">>>>, <<<<"s2">>, <<"m1">>>> }

\* the member tracker over a long time, with entries in the store
NextCount ==
    \/ \E a \in CountTrackArgs : trackMember(a[1], a[2])
    \/ \E s \in SessionIds : onlineCount(s)
    \/ \E s \in ConcSessions, a \in ConcAddArgs :
          addEntry(s, a[1], a[2], a[3], a[4])
    \/ \E ms \in PresenceTicks : Tick(ms, MaxElapsedPresence)

SpecCount == InitEntry /\ [][NextCount]_vars

\* the service called with ids that hold ':'
NextKeys ==
    \/ \E s \in OpaqueSessionIds, a \in ConcAddArgs :
          addEntry(s, a[1], a[2], a[3], a[4])
    \/ \E s \in OpaqueSessionIds : getAllEntries(s)
    \/ \E s \in OpaqueSessionIds, id \in OpaqueEntryIds : getEntry(s, id)
    \/ \E s \in OpaqueSessionIds, id \in OpaqueMemberIds : trackMember(s, id)

SpecKeys == InitEntry /\ [][NextKeys]_vars

\* calls made through several instances of the service
NextInstances ==
    \/ \E i \in Instances : newService(i)
    \/ \E s \in ConcSessions, a \in ConcAddArgs :
          addEntry(s, a[1], a[2], a[3], a[4])
    \/ \E s \in ConcSessions : getAllEntries(s)
    \/ \E s \in ConcSessions, id \in ConcEntryIds : getEntry(s, id)
    \/ \E s \in ConcSessions, id \in ConcEntryIds : deleteEntry(s, id)
    \/ \E a \in BothTrackArgs : trackMember(a[1], a[2])
    \/ \E s \in BothCountSessions : onlineCount(s)
    \/ Tick(TickMs, MaxElapsed)

SpecInstances == InitEntry /\ [][NextInstances]_vars

\* the health query of the web app
NextHealth ==
    \/ \E r \in RefetchOptions, e \in EnabledOptions : useHealthCheck(r, e)
    \/ queryFnThrows
    \/ retryTimer
    \/ queryFnReturns
    \/ refetchTimer
    \/ refetch
    \/ \E k \in 0..MaxAttemptIndex : retryDelayCall(k)

SpecHealth == Init /\ [][NextHealth]_vars

\* the chat server's WebSocket route
NextWs ==
    \/ \E ws \in Conns : wsOpen(ws)
    \/ \E ws \in Conns, data \in WsPayloads : wsMessage(ws, data)
    \/ \E ws \in Conns : wsClose(ws)

SpecWs == Init /\ [][NextWs]_vars

\* both components under one clock
Next == NextEntry \/ NextPresence

Spec == Init /\ [][Next]_vars

----------------------------------------------------------------------------
(* Vocabulary of the properties *)

\* the addEntry calls that (sessionId, id) goes back to
AddsOf(sessionId, id) ==
    {a \in added : a.sessionId = sessionId /\ a.id = id}

\* an addEntry call with non-empty text and a positive ttl
ValidAdd(a) == a.text # "" /\ a.ttl > 0

\* the time at which the entry of an addEntry call expires
ExpiryOf(a) == a.at + a.ttl * 1000

\* the addEntry calls of a session whose entry is live at time t
LiveAdds(sessionId, t) ==
    {a \in added : /\ a.sessionId = sessionId
                   /\ <<sessionId, a.id>> \notin deleted
                   /\ t < ExpiryOf(a)}

\* the elements of a sequence
Range(seq) == {seq[i] : i \in 1..Len(seq)}

\* the presence window of the running configuration, ms
WindowMs == getMemberTTL(refetchIntervalMs) * 1000

\* the member records of a session
MembersOf(sessionId) ==
    {k \in DOMAIN mockMembers : mockMembers[k].sessionId = sessionId}

\* the member map without the record under key k
WithoutMember(k) == [j \in DOMAIN mockMembers \ {k} |-> mockMembers[j]]

----------------------------------------------------------------------------
(* Entry store: properties *)

\* C1: a getEntry on the id returned by an addEntry with non-empty text and
\* a positive ttl, made on the same session before the entry expires (and
\* with no delete in between), returns an entry with the text, memberId and
\* ttl given to addEntry, and expiresAt - createdAt is ttl seconds.
C1_AddThenGet ==
    last.op = "get" =>
        \A a \in AddsOf(last.sessionId, last.id) :
            ( /\ ValidAdd(a)
              /\ <<a.sessionId, a.id>> \notin deleted
              /\ last.at < ExpiryOf(a) )
            => /\ Len(last.ret) = 1
               /\ last.ret[1].id = a.id
               /\ last.ret[1].text = a.text
               /\ last.ret[1].memberId = a.memberId
               /\ last.ret[1].ttl = a.ttl
               /\ parseDate(last.ret[1].expiresAt)
                    - parseDate(last.ret[1].createdAt) = a.ttl * 1000

\* C1 witness: a get, some time after a valid add, has returned its entry
C1_Witness ==
    /\ last.op = "get"
    /\ \E a \in AddsOf(last.sessionId, last.id) :
          /\ ValidAdd(a)
          /\ a.at < last.at /\ last.at < ExpiryOf(a)
          /\ last.ret = <<NewEntry(a.id, a.at, a.text, a.ttl, a.imageUrl,
                                   a.memberId)>>

\* C2: a getEntry on a stored entry made at or after its expiresAt returns
\* null, and no entry returned by getAllEntries that goes back to an
\* addEntry has an expiresAt at or before the time of the call.
C2_ExpiredNotFound ==
    /\ (last.op = "get" /\ last.pre = "expired") => last.ret = <<>>
    /\ last.op = "getAll" =>
          \A i \in 1..Len(last.ret) :
              AddsOf(last.sessionId, last.ret[i].id) # {}
                  => last.at < parseDate(last.ret[i].expiresAt)

\* C2 witness: a get exactly at expiresAt of a stored entry has answered
C2_Witness ==
    /\ last.op = "get" /\ last.pre = "expired"
    /\ \E a \in AddsOf(last.sessionId, last.id) :
          ValidAdd(a) /\ last.at = ExpiryOf(a)

\* C3: every entry returned by getAllEntries(sessionId) goes back to an
\* addEntry on that sessionId.
C3_GetAllOnlyOwnSession ==
    last.op = "getAll" =>
        \A i \in 1..Len(last.ret) :
            AddsOf(last.sessionId, last.ret[i].id) # {}

\* C4: getAllEntries returns an empty array when the session has no live
\* entry (nothing added, everything deleted, or everything expired).
C4_EmptyWhenNoLive ==
    (last.op = "getAll" /\ LiveAdds(last.sessionId, last.at) = {})
        => last.ret = <<>>

\* C5: getEntry on an id no addEntry on that session ever returned reports
\* NotFound (null).
C5_GetUnknownNotFound ==
    (last.op = "get" /\ AddsOf(last.sessionId, last.id) = {})
        => last.ret = <<>>

\* C6: deleteEntry on a live entry returns true, and every later getEntry
\* for that id reports NotFound (null).
C6_DeleteThenGetNotFound ==
    /\ (last.op = "delete" /\ last.pre = "live") => last.ok
    /\ (last.op = "get" /\ <<last.sessionId, last.id>> \in deleted)
          => last.ret = <<>>

\* C7: deleteEntry returns false when the id is missing and when the entry
\* has expired, evicted or not.
C7_DeleteMissingOrExpiredFalse ==
    (last.op = "delete" /\ last.pre \in {"missing", "expired"}) => ~last.ok

\* C8: what getEntry returns for a stored entry that has expired equals
\* what it returns for an id that never existed.
C8_NotFoundIndistinguishable ==
    \A s1 \in SessionIds, id1 \in EntryIds, s2 \in SessionIds, id2 \in EntryIds :
        ( /\ KeyState(mockEntries, s1, id1, now) = "expired"
          /\ AddsOf(s2, id2) = {} )
        => getEntryRet(mockEntries, s1, id1, now)
             = getEntryRet(mockEntries, s2, id2, now)

\* C14: the array getAllEntries returns is ordered by createdAt, newest
\* first (non-increasing), and two stored entries with the same createdAt
\* come in the order in which they were inserted into the map.
C14_NewestFirstStable ==
    last.op = "getAll" =>
        \A i, j \in 1..Len(last.ret) :
            i < j =>
              LET ki == getEntryKey(last.sessionId, last.ret[i].id)
                  kj == getEntryKey(last.sessionId, last.ret[j].id)
              IN /\ parseDate(last.ret[i].createdAt)
                      >= parseDate(last.ret[j].createdAt)
                 /\ ( /\ last.ret[i].createdAt = last.ret[j].createdAt
                      /\ MapHas(mockEntries, ki) /\ MapHas(mockEntries, kj) )
                    => MapIndex(mockEntries, ki) < MapIndex(mockEntries, kj)

\* C14 witness: getAllEntries has returned two entries added at the same
\* millisecond
C14_Witness ==
    /\ last.op = "getAll"
    /\ Len(last.ret) = 2
    /\ AddsOf(last.sessionId, last.ret[1].id) # {}
    /\ last.ret[1].createdAt = last.ret[2].createdAt

\* the configured maximum of "@/lib/constants", imported by the service
\* and never read by it
MAX_TTL == 2

\* C15: every entry the store holds has 0 < ttl <= MAX_TTL.
C15_TtlInRange ==
    \A i \in 1..Len(mockEntries) :
        /\ 0 < mockEntries[i].val.ttl
        /\ mockEntries[i].val.ttl <= MAX_TTL

\* C16: addEntry with empty text stores nothing: no stored entry has an
\* empty text, and the call does not return an entry.
C16_EmptyTextRejected ==
    /\ \A i \in 1..Len(mockEntries) : mockEntries[i].val.text # ""
    /\ \A a \in added : a.text = "" => ~MapHas(mockEntries,
                                           getEntryKey(a.sessionId, a.id))

\* C17: every stored entry has expiresAt = createdAt + ttl seconds (in
\* milliseconds), and is field for field the entry its addEntry returned:
\* no later call has changed createdAt, expiresAt, ttl, text or memberId.
C17_ExpiresAtDerived ==
    \A i \in 1..Len(mockEntries) :
        LET e == mockEntries[i].val
        IN /\ parseDate(e.expiresAt) = parseDate(e.createdAt) + e.ttl * 1000
           /\ \E a \in added :
                 /\ mockEntries[i].key = getEntryKey(a.sessionId, a.id)
                 /\ e = a.ret
                 /\ parseDate(e.createdAt) = a.at
                 /\ e.ttl = a.ttl /\ e.text = a.text
                 /\ e.memberId = a.memberId

\* C17 witness: an entry is still stored, unchanged, after time has passed
\* and other calls (a get on it, a delete of another entry) were made
C17_Witness ==
    /\ last.op = "delete" /\ last.ok
    /\ \E i \in 1..Len(mockEntries) :
          /\ parseDate(mockEntries[i].val.createdAt) < now
          /\ mockEntries[i].val.ttl > 0

----------------------------------------------------------------------------
(* Member tracker: properties *)

\* C9: getOnlineMemberCount(sessionId) is exactly the number of members
\* tracked in that session with now - lastSeen < presence window.
C9_OnlineCountExact ==
    last.op = "count" =>
        last.count = Cardinality({k \in MembersOf(last.sessionId) :
                         last.at - mockMembers[k].lastSeen < WindowMs})

\* C10: a getOnlineMemberCount made at the time of a trackMember on the
\* session returns at least 1, and a member whose last trackMember is a
\* presence window or more in the past adds nothing to the returned count:
\* the count is what it would be without that member's record.
C10_TrackThenCount ==
    last.op = "count" =>
        /\ (\E k \in MembersOf(last.sessionId) :
                mockMembers[k].lastSeen = last.at) => last.count >= 1
        /\ \A k \in MembersOf(last.sessionId) :
              last.at - mockMembers[k].lastSeen >= WindowMs
                  => last.count = getOnlineMemberCount(WithoutMember(k),
                                      last.sessionId, last.at,
                                      refetchIntervalMs)

\* C10 witness: a count taken while one member of the session was tracked
\* just now and another one exactly a presence window ago
C10_Witness ==
    /\ last.op = "count"
    /\ \E k \in MembersOf(last.sessionId) : mockMembers[k].lastSeen = last.at
    /\ \E k \in MembersOf(last.sessionId) :
          last.at - mockMembers[k].lastSeen = WindowMs

----------------------------------------------------------------------------
(* Concurrent callers: properties *)

\* the callers whose call is an addEntry on the session
Adders(sessionId) ==
    {c \in Callers : /\ calls[c].pc # "idle"
                      /\ calls[c].op = "add"
                      /\ calls[c].sessionId = sessionId}

\* two calls were in flight at the same time
Overlap(x, y) ==
    \/ x.at <= y.at /\ y.at <= x.doneAt
    \/ y.at <= x.at /\ x.at <= y.doneAt

\* C11: addEntry calls in flight at the same time return entries with
\* pairwise distinct ids, every addEntry so far has its own id, and while
\* no entry added to a session is expired or deleted getAllEntries returns
\* exactly the entries those calls returned, each once.
C11_ConcurrentAdds ==
    /\ \A c, d \in Callers :
          ( /\ c # d
            /\ calls[c].pc # "idle" /\ calls[c].op = "add"
            /\ calls[d].pc # "idle" /\ calls[d].op = "add" )
          => calls[c].ret[1].id # calls[d].ret[1].id
    /\ Cardinality({a.id : a \in added}) = Cardinality(added)
    /\ \A s \in ConcSessions :
          LET adds == {a \in added : a.sessionId = s}
          IN ( /\ adds # {}
               /\ LiveAdds(s, now) = adds )
             => /\ Range(getAllEntriesRet(mockEntries, s, now))
                     = {a.ret : a \in adds}
                /\ Len(getAllEntriesRet(mockEntries, s, now))
                     = Cardinality(adds)

\* C11 witness: every caller has started an addEntry on one session before
\* any of them returned, all have returned, and a getAllEntries made then
\* has returned as many entries as there are callers
C11_Witness ==
    /\ last.op = "getAll"
    /\ Adders(last.sessionId) = Callers
    /\ \A c, d \in Callers :
          /\ calls[c].pc = "done"
          /\ calls[c].at < calls[d].doneAt
          /\ calls[c].doneAt <= last.at
    /\ Len(last.ret) = NumCallers
    /\ \A c \in Callers : calls[c].ret[1] \in Range(last.ret)

\* C12: a getEntry and a deleteEntry on the same entry, live when the
\* first of them starts and in flight at the same time, end as one of the
\* serial orders: deleteEntry returns true, getEntry returns the whole
\* entry or NotFound (null), and the entry is gone from the store.
C12_GetDeleteSerial ==
    \A c, d \in Callers :
        ( /\ calls[c].pc = "done" /\ calls[c].op = "get"
          /\ calls[d].pc = "done" /\ calls[d].op = "delete"
          /\ calls[c].sessionId = calls[d].sessionId
          /\ calls[c].id = calls[d].id
          /\ calls[d].pre = "live"
          /\ Overlap(calls[c], calls[d]) )
        => /\ calls[d].ok
           /\ \/ calls[c].ret = <<>>
              \/ \E a \in AddsOf(calls[c].sessionId, calls[c].id) :
                     calls[c].ret = <<a.ret>>
           /\ ~MapHas(mockEntries,
                      getEntryKey(calls[c].sessionId, calls[c].id))

----------------------------------------------------------------------------
(* Entry store next to the member tracker: properties *)

\* C13: from the addEntry that returned entry e until e.expiresAt, and as
\* long as e is not deleted, every getEntry on e's session and id returns
\* e itself and every getAllEntries on the session contains e, whatever
\* calls on other entries, other sessions or members come in between.
C13_VisibleUntilExpiry ==
    /\ last.op = "get" =>
          \A a \in AddsOf(last.sessionId, last.id) :
              ( /\ <<a.sessionId, a.id>> \notin deleted
                /\ last.at < parseDate(a.ret.expiresAt) )
              => last.ret = <<a.ret>>
    /\ last.op = "getAll" =>
          \A a \in added :
              ( /\ a.sessionId = last.sessionId
                /\ <<a.sessionId, a.id>> \notin deleted
                /\ last.at < parseDate(a.ret.expiresAt) )
              => a.ret \in Range(last.ret)

\* C13 witness: a getAllEntries has returned an entry added earlier, after
\* another entry was deleted and a member was tracked
C13_Witness ==
    /\ last.op = "getAll"
    /\ deleted # {}
    /\ DOMAIN mockMembers # {}
    /\ \E a \in added :
          /\ a.sessionId = last.sessionId
          /\ a.at < last.at
          /\ a.ret \in Range(last.ret)

----------------------------------------------------------------------------
(* Member tracker: upsert *)

\* the member records that carry the pair (sessionId, memberId)
RecordsOf(sessionId, memberId) ==
    {k \in DOMAIN mockMembers : /\ mockMembers[k].sessionId = sessionId
                                /\ mockMembers[k].memberId = memberId}

\* C18: after any number of trackMember calls every tracked (sessionId,
\* memberId) pair has exactly one record, there are no other records, the
\* record's lastSeen is the time of the pair's latest trackMember, and a
\* second trackMember at the same time would leave the map as it is.
C18_TrackUpsert ==
    /\ \A t \in tracked :
          /\ Cardinality(RecordsOf(t.sessionId, t.memberId)) = 1
          /\ \A k \in RecordsOf(t.sessionId, t.memberId) :
                mockMembers[k].lastSeen = t.at
    /\ Cardinality(DOMAIN mockMembers) = Cardinality(tracked)
    /\ (last.op = "track" /\ last.at = now)
          => trackMemberStore(mockMembers, last.sessionId, last.id, now)
               = mockMembers

\* C18 witness: a pair that had a record was tracked again at a later time,
\* next to another pair
C18_Witness ==
    /\ last.op = "track" /\ last.pre = "present"
    /\ last.at > StartTime
    /\ Cardinality(tracked) >= 2
    /\ \A k \in RecordsOf(last.sessionId, last.id) :
          mockMembers[k].lastSeen = last.at

----------------------------------------------------------------------------
(* Presence window: properties *)

\* the members of the session that a count at last.at finds inside window w
SeenWithin(w) ==
    {k \in MembersOf(last.sessionId) : last.at - mockMembers[k].lastSeen < w}

\* the refetch interval plus the grace, ms
IntervalPlusGraceMs == refetchIntervalMs + GraceSeconds * 1000

\* the refetch interval cut down to whole seconds, plus the grace, ms
FloorPlusGraceMs ==
    (refetchIntervalMs - (refetchIntervalMs % 1000)) + GraceSeconds * 1000

\* C20 as stated: the presence window getOnlineMemberCount uses is the
\* refetch interval plus 10 s, whatever the interval: the members it counts
\* are those seen less than interval + 10 s ago.
C20_WindowIntervalPlusGrace ==
    last.op = "count" =>
        last.count = Max(SampleOnlineCount,
                         Cardinality(SeenWithin(IntervalPlusGraceMs)))

\* C20 amended: the presence window getOnlineMemberCount uses is the refetch
\* interval rounded down to whole seconds plus 10 s: the members it counts
\* are those seen less than floor(interval / 1000) * 1000 + 10000 ms ago.
C20_WindowFloorPlusGrace ==
    last.op = "count" =>
        last.count = Max(SampleOnlineCount,
                         Cardinality(SeenWithin(FloorPlusGraceMs)))

\* C20 witness: with an interval that is not a whole number of seconds, a
\* count over four members of which one was seen between the two windows
C20_Witness ==
    /\ last.op = "count"
    /\ refetchIntervalMs % 1000 # 0
    /\ Cardinality(MembersOf(last.sessionId)) = 4
    /\ Cardinality(SeenWithin(FloorPlusGraceMs)) = 3
    /\ Cardinality(SeenWithin(IntervalPlusGraceMs)) = 4
    /\ last.count = 3

----------------------------------------------------------------------------
(* Several instances: properties *)

\* C19: instances share no state: an entry that getEntry or getAllEntries
\* returns through one instance was added through that same instance.
C19_InstancesIsolated ==
    last.op \in {"get", "getAll"} =>
        \A i \in 1..Len(last.ret) :
            \A a \in added :
                a.ret = last.ret[i] => a.inst = last.inst

----------------------------------------------------------------------------
(* Entry store: eviction *)

\* C23: after getAllEntries(sessionId) has returned, the store holds no
\* entry of that session whose expiresAt is at or before the time of the
\* call.
C23_GetAllEvicts ==
    last.op = "getAll" =>
        \A i \in 1..Len(mockEntries) :
            startsWith(mockEntries[i].key, entryKeyPrefix(last.sessionId))
                => parseDate(mockEntries[i].val.expiresAt) > last.at

\* the entry map with the entry under key k taken out, the rest in place
MapWithout(m, k) == SelectSeq(m, LAMBDA e : e.key # k)

\* C24: a getEntry on a stored entry that has expired returns null and
\* leaves the map without exactly that entry, all others as they were; a
\* getEntry on a live entry or on a missing key leaves the map unchanged.
C24_GetEvictsOnlyItsOwn ==
    [][ (last'.op = "get" /\ last' # last) =>
          LET k == getEntryKey(last'.sessionId, last'.id)
              pre == KeyState(mockEntries, last'.sessionId, last'.id, now)
          IN /\ pre = "expired" =>
                   /\ last'.ret = <<>>
                   /\ MapHas(mockEntries, k) /\ ~MapHas(mockEntries', k)
                   /\ mockEntries' = MapWithout(mockEntries, k)
             /\ pre \in {"live", "missing"} => mockEntries' = mockEntries
      ]_vars

\* C24 witness: a getEntry on an expired entry has returned null and taken
\* it out while another expired entry is still in the map
C24_Witness ==
    /\ last.op = "get" /\ last.pre = "expired" /\ last.ret = <<>>
    /\ ~MapHas(mockEntries, getEntryKey(last.sessionId, last.id))
    /\ \E i \in 1..Len(mockEntries) :
          parseDate(mockEntries[i].val.expiresAt) <= last.at

----------------------------------------------------------------------------
(* Member tracker: frame of the count *)

\* C25: getOnlineMemberCount changes neither the member map (stale records
\* stay) nor the entry map, and a second call at the same time on the same
\* session returns the same number.
C25_CountHasNoEffect ==
    [][ (last'.op = "count" /\ last' # last) =>
          /\ mockMembers' = mockMembers
          /\ mockEntries' = mockEntries
          /\ getOnlineMemberCount(mockMembers', last'.sessionId, now',
                                  refetchIntervalMs') = last'.count
      ]_vars

\* C25 witness: a count was taken while the session had a record outside
\* the presence window and the store held an entry; both are still there
C25_Witness ==
    /\ last.op = "count"
    /\ mockEntries # <<>>
    /\ \E k \in MembersOf(last.sessionId) :
          last.at - mockMembers[k].lastSeen >= WindowMs

----------------------------------------------------------------------------
(* Member tracker: the life of a record *)

\* the keys trackMember is called on
MemberKeys == {getMemberKey(a[1], a[2]) : a \in TrackArgs}

\* Unknown: no record; Online: lastSeen inside the presence window; Stale:
\* a record with lastSeen a window or more in the past
MemberStatus(m, k, t) ==
    IF k \notin DOMAIN m THEN "Unknown"
    ELSE IF t - m[k].lastSeen < WindowMs THEN "Online"
    ELSE "Stale"

\* C26: a member record only goes Unknown -> Online (first trackMember),
\* Online -> Online, Online -> Stale (time passing, no trackMember) and
\* Stale -> Online (trackMember); every trackMember leaves the record
\* Online, only a trackMember makes a record Online, and a record is never
\* removed.
C26_PresenceTransitions ==
    [][ \A k \in MemberKeys :
          LET before == MemberStatus(mockMembers, k, now)
              after == MemberStatus(mockMembers', k, now')
              isTrack == /\ last'.op = "track" /\ last' # last
                         /\ getMemberKey(last'.sessionId, last'.id) = k
          IN /\ <<before, after>> \in
                   { <<"Unknown", "Unknown">>, <<"Unknown", "Online">>,
                     <<"Online", "Online">>, <<"Online", "Stale">>,
                     <<"Stale", "Stale">>, <<"Stale", "Online">> }
             /\ isTrack => after = "Online"
             /\ (before # "Online" /\ after = "Online") => isTrack
             /\ (before = "Online" /\ after = "Stale")
                   => (now' > now /\ ~isTrack)
             /\ k \in DOMAIN mockMembers => k \in DOMAIN mockMembers'
      ]_vars

\* C26 witness: a record that had gone stale was tracked again and is
\* inside the presence window
C26_Witness ==
    /\ last.op = "track" /\ last.pre = "stale"
    /\ \A k \in RecordsOf(last.sessionId, last.id) :
          /\ mockMembers[k].lastSeen = last.at
          /\ MemberStatus(mockMembers, k, now) = "Online"
    /\ RecordsOf(last.sessionId, last.id) # {}

----------------------------------------------------------------------------
(* Entry store next to the member tracker: independence *)

EntryOps == {"add", "get", "getAll", "delete"}
MemberOps == {"track", "count"}

\* C27: addEntry, getEntry, getAllEntries and deleteEntry leave the member
\* map as it is, and with it what getOnlineMemberCount returns for every
\* session; trackMember and getOnlineMemberCount leave the entry map as it
\* is, and with it what getEntry and getAllEntries return for every session
\* and id.
C27_ComponentsIndependent ==
    [][ /\ (last'.op \in EntryOps /\ last' # last) =>
              /\ mockMembers' = mockMembers
              /\ \A s \in SessionIds :
                    getOnlineMemberCount(mockMembers', s, now',
                                         refetchIntervalMs')
                      = getOnlineMemberCount(mockMembers, s, now,
                                             refetchIntervalMs)
        /\ (last'.op \in MemberOps /\ last' # last) =>
              /\ mockEntries' = mockEntries
              /\ \A s \in SessionIds :
                    /\ getAllEntriesRet(mockEntries', s, now')
                         = getAllEntriesRet(mockEntries, s, now)
                    /\ \A id \in EntryIds :
                          getEntryRet(mockEntries', s, id, now')
                            = getEntryRet(mockEntries, s, id, now)
      ]_vars

\* C27 witness: a live entry was deleted while its session had a member
\* record, and the record is still there
C27_Witness ==
    /\ last.op = "delete" /\ last.pre = "live" /\ last.ok
    /\ MembersOf(last.sessionId) # {}
    /\ mockEntries # <<>>

----------------------------------------------------------------------------
(* The /ws route: properties *)

\* the frames a socket got in a step
GotInStep(c) == SubSeq(inbox'[c].got, Len(inbox[c].got) + 1, Len(inbox'[c].got))

\* C28: in every WebSocket event, a chat_message from an open socket adds
\* exactly one message to the end of messages and sends it as new_message,
\* once, to exactly the sockets open at that moment, the sender among them;
\* a typing message sends one user_typing to every open socket but the
\* sender and leaves messages as it is; nothing a socket got is taken back,
\* and a socket that is closed gets nothing.
C28_Broadcast ==
    [][ wsLast'.n = wsLast.n + 1 =>
          LET ws == wsLast'.ws
              isChat == wsLast'.event = "message"
                          /\ wsLast'.type = "chat_message"
              isTyping == wsLast'.event = "message" /\ wsLast'.type = "typing"
          IN /\ \A c \in Conns :
                   /\ Len(inbox'[c].got) >= Len(inbox[c].got)
                   /\ SubSeq(inbox'[c].got, 1, Len(inbox[c].got))
                        = inbox[c].got
                   /\ inbox[c].state = "closed" =>
                         /\ inbox'[c].state = "closed"
                         /\ GotInStep(c) = <<>>
             /\ wsLast'.event = "message" => ws \in OpenConns
             /\ isChat =>
                   /\ Len(messages') = Len(messages) + 1
                   /\ SubSeq(messages', 1, Len(messages)) = messages
                   /\ \A i \in 1..Len(messages) :
                         messages[i].id # messages'[Len(messages')].id
                   /\ \E d \in WsPayloads :
                         /\ d.type = "chat_message"
                         /\ messages'[Len(messages')].userId = d.userId
                         /\ messages'[Len(messages')].content = d.content
                   /\ \A c \in Conns :
                         GotInStep(c) =
                           IF c \in OpenConns
                           THEN << Frame("new_message", "", "",
                                         <<messages'[Len(messages')]>>) >>
                           ELSE <<>>
             /\ isTyping =>
                   /\ messages' = messages
                   /\ \A c \in Conns :
                         IF c \in OpenConns \ {ws}
                         THEN /\ Len(GotInStep(c)) = 1
                              /\ GotInStep(c)[1].type = "user_typing"
                         ELSE GotInStep(c) = <<>>
      ]_vars

\* C28 witness: after a chat_message was stored, a typing message came in
\* while another socket was open and a third one closed: the open one got
\* user_typing last, the sender and the closed one did not
C28_Witness ==
    /\ wsLast.event = "message" /\ wsLast.type = "typing"
    /\ messages # <<>>
    /\ inbox[wsLast.ws].got[Len(inbox[wsLast.ws].got)].type # "user_typing"
    /\ \E c \in Conns \ {wsLast.ws} :
          /\ inbox[c].state = "open"
          /\ inbox[c].got[Len(inbox[c].got)].type = "user_typing"
    /\ \E c \in Conns :
          /\ inbox[c].state = "closed"
          /\ \A i \in 1..Len(inbox[c].got) :
                inbox[c].got[i].type # "user_typing"

----------------------------------------------------------------------------
(* Storage keys: properties *)

\* C29: storage keys are injective over the ids given by callers, ':' and
\* ':entry:' / ':member:' inside them included: a getEntry returns a
\* stored entry only to the (sessionId, entryId) it was added under, the
\* prefix getAllEntries scans for matches only the keys of its own
\* session, and two different (sessionId, memberId) pairs that were
\* tracked have two records.
C29_KeysInjective ==
    /\ last.op = "get" =>
          \A a \in added :
              last.ret = <<a.ret>>
                  => (a.sessionId = last.sessionId /\ a.id = last.id)
    /\ last.op = "getAll" =>
          \A a \in added :
              a.ret \in Range(last.ret) => a.sessionId = last.sessionId
    /\ \A t1, t2 \in tracked :
          getMemberKey(t1.sessionId, t1.memberId)
              = getMemberKey(t2.sessionId, t2.memberId)
          => (t1.sessionId = t2.sessionId /\ t1.memberId = t2.memberId)

\* C30: an entry that getEntry returns has the requested id and is the
\* entry an addEntry on the requested session returned.
C30_GetReturnsRequested ==
    (last.op = "get" /\ last.ret # <<>>) =>
        /\ last.ret[1].id = last.id
        /\ \E a \in AddsOf(last.sessionId, last.id) : last.ret = <<a.ret>>

----------------------------------------------------------------------------
(* Health query: properties *)

\* C21: a failing health request is retried at most 3 times, the delay
\* before retry number k (k = 0, 1, 2, ...) is min(1000 * 2^k, 30000) ms:
\* 1000, 2000, 4000, ..., doubling until it would pass 30000 and 30000 from
\* then on.
C21_RetryBackoff ==
    /\ Len(query.delays) <= 3
    /\ query.failureCount = Len(query.delays)
    /\ \A k \in 1..Len(query.delays) :
          /\ query.delays[k] <= 30000
          /\ query.delays[k] = IF k = 1 THEN 1000 ELSE 2 * query.delays[k - 1]
    /\ delayCall.attemptIndex >= 0 =>
          /\ delayCall.delay <= 30000
          /\ 1000 * 2^delayCall.attemptIndex <= 30000
                => delayCall.delay = 1000 * 2^delayCall.attemptIndex
          /\ 1000 * 2^delayCall.attemptIndex > 30000
                => delayCall.delay = 30000

\* C21 witness: the query has failed for good after waiting 1 s, 2 s and
\* 4 s, and retryDelay was called with an attemptIndex beyond the cap
C21_Witness ==
    /\ query.state = "error"
    /\ query.delays = <<1000, 2000, 4000>>
    /\ delayCall.attemptIndex >= 5
    /\ delayCall.delay = 30000

\* C22: with refetchInterval: undefined the interval handed to useQuery is
\* not a positive number of ms, and the interval timer never starts a fetch.
C22_UndefinedDisablesRefetch ==
    (query.state # "unmounted" /\ query.option.kind = "undefined")
        => /\ ~(query.refetchInterval.kind = "number"
                /\ query.refetchInterval.ms > 0)
           /\ query.auto = 0

====
